---- MODULE Spec2Model ----
(***************************************************************************)
(* Model of src/app.py: the Streamlit chat front-end that classifies a     *)
(* query with one Bedrock invoke_model call, then answers it either from   *)
(* the knowledge base (retrieve_and_generate) or with a second             *)
(* invoke_model call, and records the turns in st.session_state.           *)
(*                                                                         *)
(* Every Python str is a sequence of one-character strings, so that        *)
(* str.lower(), `a in b`, ''.join(...) and f-strings are computed and not  *)
(* assumed.  The empty str is << >>.                                       *)
(***************************************************************************)
EXTENDS Naturals, Sequences, FiniteSets, TLC

VARIABLES
    PRODUCT_NAME,   \* os.getenv('PRODUCT_NAME'), fixed at start-up
    chat_history,   \* st.session_state.chat_history
    pc,             \* position of the script run
    query,          \* the query of the current script run
    category,       \* what classify_query returned
    response,       \* what get_kb_response / get_generic_response returned
    cls_outcome,    \* what invoke_model did for the classification call
    ans_outcome,    \* what the answering path's remote call did
    invoked,        \* functions of app.py called during the current run
    calls,          \* remote calls issued during the current run
    errors,         \* st.error reports of the current run
    display,        \* st.markdown outputs of the current run
    log             \* history variable: queries completed since Clear Chat

vars == << PRODUCT_NAME, chat_history, pc, query, category, response,
           cls_outcome, ans_outcome, invoked, calls, errors, display, log >>

----------------------------------------------------------------------------
(* Bounds of the model *)

\* queries submitted between two Clear Chat actions
MaxQueries == 2

\* content fragments of a generated classifier reply
MaxFrags == 2

\* characters of one generated text fragment
MaxTextLen == 2

\* citation groups of a generated knowledge-base reply
MaxGroups == 2

\* retrieved references of one generated citation group
MaxRefs == 2

SeqsUpTo(S, n) == UNION { [1..k -> S] : k \in 0..n }

----------------------------------------------------------------------------
(* Texts used as inputs *)

\* "Acme"
ACME ==
    << "A","c","m","e" >>

\* "WidgetPro"
WIDGETPRO ==
    << "W","i","d","g","e","t","P","r","o" >>

\* "How do I reset my device?"
Q_RESET ==
    << "H","o","w"," ","d","o"," ","I"," ","r","e","s","e",
       "t"," ","m","y"," ","d","e","v","i","c","e","?" >>

\* "What's the weather today?"
Q_WEATHER ==
    << "W","h","a","t","'","s"," ","t","h","e"," ","w","e",
       "a","t","h","e","r"," ","t","o","d","a","y","?" >>

\* "Product"
PRODUCT ==
    << "P","r","o","d","u","c","t" >>

\* "Generic"
GENERIC ==
    << "G","e","n","e","r","i","c" >>

\* "this is about acme products"
TXT_ABOUT_ACME ==
    << "t","h","i","s"," ","i","s"," ","a","b","o","u","t",
       " ","a","c","m","e"," ","p","r","o","d","u","c","t",
       "s" >>

\* "I don't know"
TXT_DONT_KNOW ==
    << "I"," ","d","o","n","'","t"," ","k","n","o","w" >>

\* "WIDGETPRO question"
TXT_WIDGET ==
    << "W","I","D","G","E","T","P","R","O"," ","q","u","e",
       "s","t","i","o","n" >>

\* "Hold power for 10s."
ANSWER ==
    << "H","o","l","d"," ","p","o","w","e","r"," ","f","o",
       "r"," ","1","0","s","." >>

\* "Reset instructions..."
CONTEXT_1 ==
    << "R","e","s","e","t"," ","i","n","s","t","r","u","c",
       "t","i","o","n","s",".",".","." >>

\* "s3://docs/reset.txt"
URI_1 ==
    << "s","3",":","/","/","d","o","c","s","/","r","e","s",
       "e","t",".","t","x","t" >>

\* "context "
CONTEXT_N ==
    << "c","o","n","t","e","x","t"," " >>

\* "s3://docs/"
URI_N ==
    << "s","3",":","/","/","d","o","c","s","/" >>

\* "Sunny."
GENERIC_ANSWER ==
    << "S","u","n","n","y","." >>

\* "Classified as: "
CLASSIFIED_AS ==
    << "C","l","a","s","s","i","f","i","e","d"," ","a","s",
       ":"," " >>

\* "No specific context found"
NO_CONTEXT ==
    << "N","o"," ","s","p","e","c","i","f","i","c"," ","c",
       "o","n","t","e","x","t"," ","f","o","u","n","d" >>

----------------------------------------------------------------------------
(* str.lower(), the substring test `a in b`, and ''.join over the text     *)
(* fragments of a reply                                                    *)

UpperLetters ==
    << "A","B","C","D","E","F","G","H","I","J","K","L","M",
       "N","O","P","Q","R","S","T","U","V","W","X","Y","Z" >>

LowerLetters ==
    << "a","b","c","d","e","f","g","h","i","j","k","l","m",
       "n","o","p","q","r","s","t","u","v","w","x","y","z" >>

LowerChar(c) ==
    IF \E i \in 1..Len(UpperLetters) : UpperLetters[i] = c
    THEN LowerLetters[CHOOSE i \in 1..Len(UpperLetters) : UpperLetters[i] = c]
    ELSE c

Lower(s) == [i \in 1..Len(s) |-> LowerChar(s[i])]

Contains(needle, hay) ==
    \E i \in 0..Len(hay) :
        /\ i + Len(needle) <= Len(hay)
        /\ SubSeq(hay, i + 1, i + Len(needle)) = needle

RECURSIVE JoinText(_)
JoinText(content) ==
    IF content = << >> THEN << >>
    ELSE IF "text" \in DOMAIN Head(content)
         THEN Head(content).text \o JoinText(Tail(content))
         ELSE JoinText(Tail(content))

----------------------------------------------------------------------------
(* A remote call raises, or returns a body *)

Raised == [raised |-> TRUE]

Returned(body) == [raised |-> FALSE, body |-> body]

RemoteCall(by, api, outcome) ==
    [by |-> by, api |-> api, raised |-> outcome.raised]

HasContent(body) ==
    /\ "output" \in DOMAIN body
    /\ "message" \in DOMAIN body.output
    /\ "content" \in DOMAIN body.output.message

Markdown(kind, text) == [kind |-> kind, text |-> text]

----------------------------------------------------------------------------
(* classify_query *)

\* faulty variant: the product name is not lower-cased
ClassifyMatch_CaseSensitive(name, result) ==
    IF Contains(name, Lower(result)) THEN PRODUCT ELSE GENERIC

ClassifyMatch(name, result) ==
    IF Contains(Lower(name), Lower(result)) THEN PRODUCT ELSE GENERIC

ClassifyTry(name, outcome) ==
    IF outcome.raised \/ ~HasContent(outcome.body)
    THEN [exc |-> TRUE]
    ELSE [exc |-> FALSE,
          ret |-> ClassifyMatch(name, JoinText(outcome.body.output.message.content))]

\* faulty variant: a failed classification is sent to the knowledge base
classify_query_FailToProduct(name, outcome) ==
    LET t == ClassifyTry(name, outcome) IN
    [exc     |-> FALSE,
     ret     |-> IF t.exc THEN PRODUCT ELSE t.ret,
     errors  |-> IF t.exc THEN << "Classification error" >> ELSE << >>,
     display |-> << >>,
     calls   |-> << RemoteCall("classify_query", "invoke_model", outcome) >>]

classify_query(name, outcome) ==
    LET t == ClassifyTry(name, outcome) IN
    [exc     |-> FALSE,
     ret     |-> IF t.exc THEN GENERIC ELSE t.ret,
     errors  |-> IF t.exc THEN << "Classification error" >> ELSE << >>,
     display |-> << >>,
     calls   |-> << RemoteCall("classify_query", "invoke_model", outcome) >>]

----------------------------------------------------------------------------
(* get_kb_response *)

HasFirstReference(body) ==
    /\ Len(body.citations) > 0
    /\ Len(body.citations[1].retrievedReferences) > 0

\* faulty variant: the last reference of the first group is taken
FirstReference_Last(body) ==
    body.citations[1].retrievedReferences[Len(body.citations[1].retrievedReferences)]

FirstReference(body) == body.citations[1].retrievedReferences[1]

\* faulty variant: the else branch of line 157 shows nothing
NoContextDisplay_Missing == << >>

NoContextDisplay == << Markdown("NoContext", NO_CONTEXT) >>

KbTry(outcome) ==
    IF outcome.raised THEN [exc |-> TRUE]
    ELSE LET body == outcome.body IN
    IF ~("output" \in DOMAIN body /\ "text" \in DOMAIN body.output)
    THEN [exc |-> TRUE]
    ELSE IF "citations" \notin DOMAIN body
    THEN [exc |-> TRUE]
    ELSE IF /\ Len(body.citations) > 0
            /\ "retrievedReferences" \notin DOMAIN body.citations[1]
    THEN [exc |-> TRUE]
    ELSE IF HasFirstReference(body)
    THEN LET ref == FirstReference(body) IN
         IF ~("content" \in DOMAIN ref /\ "text" \in DOMAIN ref.content)
         THEN [exc |-> TRUE]
         ELSE IF ~(/\ "location" \in DOMAIN ref
                   /\ "s3Location" \in DOMAIN ref.location
                   /\ "uri" \in DOMAIN ref.location.s3Location)
         THEN [exc |-> TRUE]
         ELSE [exc |-> FALSE, ret |-> body.output.text,
               display |-> << Markdown("Context", ref.content.text),
                              Markdown("Source", ref.location.s3Location.uri) >>]
    ELSE [exc |-> FALSE, ret |-> body.output.text,
          display |-> NoContextDisplay]

\* faulty variant: a call that raised is issued a second time
get_kb_response_Retry(outcome) ==
    LET t == KbTry(outcome)
        c == RemoteCall("get_kb_response", "retrieve_and_generate", outcome)
    IN
    [exc     |-> FALSE,
     ret     |-> IF t.exc THEN << >> ELSE t.ret,
     errors  |-> IF t.exc THEN << "Knowledge base error" >> ELSE << >>,
     display |-> IF t.exc THEN << >> ELSE t.display,
     calls   |-> IF outcome.raised THEN << c, c >> ELSE << c >>]

\* faulty variant: the except clause returns the answer already extracted
get_kb_response_KeepAnswer(outcome) ==
    LET t == KbTry(outcome)
        kept == IF ~outcome.raised /\ "output" \in DOMAIN outcome.body
                   /\ "text" \in DOMAIN outcome.body.output
                THEN outcome.body.output.text ELSE << >>
    IN
    [exc     |-> FALSE,
     ret     |-> IF t.exc THEN kept ELSE t.ret,
     errors  |-> IF t.exc THEN << "Knowledge base error" >> ELSE << >>,
     display |-> IF t.exc THEN << >> ELSE t.display,
     calls   |-> << RemoteCall("get_kb_response", "retrieve_and_generate", outcome) >>]

get_kb_response(outcome) ==
    LET t == KbTry(outcome) IN
    [exc     |-> FALSE,
     ret     |-> IF t.exc THEN << >> ELSE t.ret,
     errors  |-> IF t.exc THEN << "Knowledge base error" >> ELSE << >>,
     display |-> IF t.exc THEN << >> ELSE t.display,
     calls   |-> << RemoteCall("get_kb_response", "retrieve_and_generate", outcome) >>]

----------------------------------------------------------------------------
(* get_generic_response *)

GenericTry(outcome) ==
    IF outcome.raised \/ ~HasContent(outcome.body)
    THEN [exc |-> TRUE]
    ELSE [exc |-> FALSE, ret |-> JoinText(outcome.body.output.message.content)]

\* faulty variant: no except clause
get_generic_response_NoCatch(outcome) ==
    LET t == GenericTry(outcome) IN
    [exc     |-> t.exc,
     ret     |-> IF t.exc THEN << >> ELSE t.ret,
     errors  |-> << >>,
     display |-> << >>,
     calls   |-> << RemoteCall("get_generic_response", "invoke_model", outcome) >>]

get_generic_response(outcome) ==
    LET t == GenericTry(outcome) IN
    [exc     |-> FALSE,
     ret     |-> IF t.exc THEN << >> ELSE t.ret,
     errors  |-> IF t.exc THEN << "Generic response error" >> ELSE << >>,
     display |-> << >>,
     calls   |-> << RemoteCall("get_generic_response", "invoke_model", outcome) >>]

----------------------------------------------------------------------------
(* Replies of invoke_model *)

TextItem(t) == [text |-> t]

\* a content fragment without a 'text' field
OtherItem == [toolUse |-> << "t" >>]

Reply(content) == [output |-> [message |-> [content |-> content]]]

\* a body without the 'output' field
BadReply == [stopReason |-> << "e" >>]

ClsSamples ==
    { Raised, Returned(BadReply),
      Returned(Reply(<< TextItem(PRODUCT) >>)),
      Returned(Reply(<< TextItem(GENERIC) >>)),
      Returned(Reply(<< TextItem(TXT_ABOUT_ACME) >>)),
      Returned(Reply(<< TextItem(TXT_DONT_KNOW) >>)),
      Returned(Reply(<< TextItem(TXT_WIDGET) >>)),
      Returned(Reply(<< TextItem(<< "A","C" >>), OtherItem,
                        TextItem(<< "M","E" >>) >>)) }

GenSamples ==
    { Raised, Returned(BadReply),
      Returned(Reply(<< TextItem(GENERIC_ANSWER) >>)),
      Returned(Reply(<< OtherItem >>)),
      Returned(Reply(<< TextItem(<< "S","u","n" >>), OtherItem,
                        TextItem(<< "n","y","." >>) >>)) }

Alphabet == { "A", "a", "c" }

GenTexts == SeqsUpTo(Alphabet, MaxTextLen)

GenItems == { TextItem(t) : t \in GenTexts } \cup { OtherItem }

ClsGenerated == { Returned(Reply(c)) : c \in SeqsUpTo(GenItems, MaxFrags) }

Products == { ACME, WIDGETPRO }

ShortProducts == { << "A","c" >> }

----------------------------------------------------------------------------
(* Replies of retrieve_and_generate.  A reference is made from its place   *)
(* (group g, index i) so that no two references of a reply are equal; the  *)
(* first reference of the first group is the one of the spec's scenario.   *)

RefText(g, i) ==
    IF g = 1 /\ i = 1 THEN CONTEXT_1
    ELSE CONTEXT_N \o << ToString(g), ".", ToString(i) >>

RefUri(g, i) ==
    IF g = 1 /\ i = 1 THEN URI_1
    ELSE URI_N \o << ToString(g), "/", ToString(i) >>

S3Location(g, i) == [type |-> << "S","3" >>, s3Location |-> [uri |-> RefUri(g, i)]]

\* a reference of a web data source: no s3Location
WebLocation(g, i) == [type |-> << "W","E","B" >>, webLocation |-> [url |-> RefUri(g, i)]]

Reference(g, i, kind) ==
    CASE kind = "ok"     -> [content |-> [text |-> RefText(g, i)],
                             location |-> S3Location(g, i)]
      [] kind = "noText" -> [content |-> [type |-> << "I","M","G" >>],
                             location |-> S3Location(g, i)]
      [] kind = "noUri"  -> [content |-> [text |-> RefText(g, i)],
                             location |-> WebLocation(g, i)]

RefKinds == { "ok", "noText", "noUri" }

Citations(shape) ==
    [g \in 1..Len(shape) |->
        [retrievedReferences |->
            [i \in 1..Len(shape[g]) |-> Reference(g, i, shape[g][i])]]]

KbReply(answer, shape) ==
    [output |-> [text |-> answer], citations |-> Citations(shape)]

Answers == { ANSWER, << >> }

SampleShapes ==
    { << >>,
      << << "ok" >> >>,
      << << >>, << "ok" >> >>,
      << << "ok", "ok" >>, << "ok" >> >>,
      << << "noText" >> >>,
      << << "noUri" >> >>,
      << << "ok", "noText" >> >> }

KbMalformed ==
    { [output |-> [text |-> ANSWER]],
      [citations |-> << >>],
      [output |-> [text |-> ANSWER],
       citations |-> << [generatedResponsePart |-> << "x" >>] >>] }

KbSamples ==
    { Raised } \cup { Returned(b) : b \in KbMalformed }
    \cup { Returned(KbReply(a, s)) : a \in Answers, s \in SampleShapes }

KbShapes == SeqsUpTo(SeqsUpTo(RefKinds, MaxRefs), MaxGroups)

KbGenerated ==
    { Returned(KbReply(a, s)) : a \in Answers, s \in KbShapes }

----------------------------------------------------------------------------
(* The script run: lines 219-258 *)

Turn(role, content) == [role |-> role, content |-> content]

UserTurns(h) == { i \in 1..Len(h) : h[i].role = "user" }

NoOutcome == [raised |-> FALSE]

\* faulty variant: only the Product branch is dispatched
PathFor_SkipGeneric(cat) == IF cat = PRODUCT THEN "RetrievingKB" ELSE "Rendering"

\* lines 235-240: which function answers a query of this category
PathFor(cat) == IF cat = PRODUCT THEN "RetrievingKB" ELSE "GeneratingGeneric"

\* faulty variant: the turn is appended without testing the response
AssistantTurns_Always(resp) == << Turn("assistant", resp) >>

\* lines 242-247: the turn appended for a response
AssistantTurns(resp) ==
    IF resp # << >> THEN << Turn("assistant", resp) >> ELSE << >>

\* lines 219-225: a query arrives; the script reruns from the top, so the
\* page of the previous run is replaced
Submit ==
    /\ pc \in { "Start", "Done" }
    /\ Cardinality(UserTurns(chat_history)) < MaxQueries
    /\ \E q \in { Q_RESET, Q_WEATHER } :
        /\ query' = q
        /\ display' = << Markdown("user", q) >>
        /\ chat_history' = Append(chat_history, Turn("user", q))
    /\ pc' = "Classifying"
    /\ category' = << >>
    /\ response' = << >>
    /\ cls_outcome' = NoOutcome
    /\ ans_outcome' = NoOutcome
    /\ invoked' = << >>
    /\ calls' = << >>
    /\ errors' = << >>
    /\ UNCHANGED << PRODUCT_NAME, log >>

\* lines 229-235: classify_query, the system turn, and the choice of path
Classify(inputs) ==
    /\ pc = "Classifying"
    /\ \E o \in inputs :
        LET r == classify_query(PRODUCT_NAME, o) IN
        /\ cls_outcome' = o
        /\ invoked' = Append(invoked, "classify_query")
        /\ calls' = calls \o r.calls
        /\ IF r.exc
           THEN /\ pc' = "Crashed"
                /\ UNCHANGED << category, chat_history, errors >>
           ELSE /\ category' = r.ret
                /\ errors' = errors \o r.errors
                /\ chat_history' =
                      Append(chat_history, Turn("system", CLASSIFIED_AS \o r.ret))
                /\ pc' = PathFor(r.ret)
    /\ UNCHANGED << PRODUCT_NAME, query, response, ans_outcome, display, log >>

\* lines 235-237: the Product path
RetrieveKB(inputs) ==
    /\ pc = "RetrievingKB"
    /\ \E o \in inputs :
        LET r == get_kb_response(o) IN
        /\ ans_outcome' = o
        /\ invoked' = Append(invoked, "get_kb_response")
        /\ calls' = calls \o r.calls
        /\ IF r.exc
           THEN /\ pc' = "Crashed"
                /\ UNCHANGED << response, errors, display >>
           ELSE /\ response' = r.ret
                /\ errors' = errors \o r.errors
                /\ display' = display \o r.display
                /\ pc' = "Rendering"
    /\ UNCHANGED << PRODUCT_NAME, chat_history, query, category, cls_outcome, log >>

\* lines 238-240: the Generic path
GenerateGeneric(inputs) ==
    /\ pc = "GeneratingGeneric"
    /\ \E o \in inputs :
        LET r == get_generic_response(o) IN
        /\ ans_outcome' = o
        /\ invoked' = Append(invoked, "get_generic_response")
        /\ calls' = calls \o r.calls
        /\ IF r.exc
           THEN /\ pc' = "Crashed"
                /\ UNCHANGED << response, errors, display >>
           ELSE /\ response' = r.ret
                /\ errors' = errors \o r.errors
                /\ display' = display \o r.display
                /\ pc' = "Rendering"
    /\ UNCHANGED << PRODUCT_NAME, chat_history, query, category, cls_outcome, log >>

\* lines 242-247: the assistant turn, if there is a response
Render ==
    /\ pc = "Rendering"
    /\ display' = IF response # << >>
                  THEN Append(display, Markdown("answer", response))
                  ELSE display
    /\ chat_history' = chat_history \o AssistantTurns(response)
    /\ log' = Append(log, [query |-> query, label |-> category,
                           response |-> response])
    /\ pc' = "Done"
    /\ UNCHANGED << PRODUCT_NAME, query, category, response, cls_outcome,
                    ans_outcome, invoked, calls, errors >>

\* lines 255-258: Clear Chat empties the history and reruns the script
ClearChat ==
    /\ pc \in { "Start", "Done" }
    /\ chat_history' = << >>
    /\ log' = << >>
    /\ pc' = "Start"
    /\ query' = << >>
    /\ category' = << >>
    /\ response' = << >>
    /\ cls_outcome' = NoOutcome
    /\ ans_outcome' = NoOutcome
    /\ invoked' = << >>
    /\ calls' = << >>
    /\ errors' = << >>
    /\ display' = << >>
    /\ UNCHANGED PRODUCT_NAME

\* lines 25-42: the state after start-up
Init ==
    /\ PRODUCT_NAME \in Products
    /\ chat_history = << >>
    /\ pc = "Start"
    /\ query = << >>
    /\ category = << >>
    /\ response = << >>
    /\ cls_outcome = NoOutcome
    /\ ans_outcome = NoOutcome
    /\ invoked = << >>
    /\ calls = << >>
    /\ errors = << >>
    /\ display = << >>
    /\ log = << >>

ClassifyStep == Classify(ClsSamples)

RetrieveKBStep == RetrieveKB(KbSamples)

GenerateGenericStep == GenerateGeneric(GenSamples)

Next ==
    \/ Submit
    \/ ClassifyStep
    \/ RetrieveKBStep
    \/ GenerateGenericStep
    \/ Render
    \/ ClearChat

Spec == Init /\ [][Next]_vars

\* The script runs to its end once started: no await, no thread, and every
\* remote call returns or raises.
FairSpec ==
    /\ Spec
    /\ WF_vars(ClassifyStep)
    /\ WF_vars(RetrieveKBStep)
    /\ WF_vars(GenerateGenericStep)
    /\ WF_vars(Render)

----------------------------------------------------------------------------
(* classify_query on generated replies: the run stands at line 229 *)

ClassifyInit ==
    /\ PRODUCT_NAME \in Products \cup ShortProducts
    /\ query = Q_RESET
    /\ chat_history = << Turn("user", query) >>
    /\ display = << Markdown("user", query) >>
    /\ pc = "Classifying"
    /\ category = << >>
    /\ response = << >>
    /\ cls_outcome = NoOutcome
    /\ ans_outcome = NoOutcome
    /\ invoked = << >>
    /\ calls = << >>
    /\ errors = << >>
    /\ log = << >>

ClassifyAny == Classify(ClsGenerated \cup ClsSamples)

ClassifySpec == ClassifyInit /\ [][ClassifyAny]_vars

----------------------------------------------------------------------------
(* get_kb_response on generated replies: the run stands at line 237, the   *)
(* query having been classified Product                                    *)

KbInit ==
    /\ PRODUCT_NAME = WIDGETPRO
    /\ query = Q_RESET
    /\ cls_outcome = Returned(Reply(<< TextItem(TXT_WIDGET) >>))
    /\ category = PRODUCT
    /\ chat_history = << Turn("user", query),
                         Turn("system", CLASSIFIED_AS \o category) >>
    /\ display = << Markdown("user", query) >>
    /\ pc = "RetrievingKB"
    /\ response = << >>
    /\ ans_outcome = NoOutcome
    /\ invoked = << "classify_query" >>
    /\ calls = << RemoteCall("classify_query", "invoke_model", cls_outcome) >>
    /\ errors = << >>
    /\ log = << >>

RetrieveKBAny == RetrieveKB(KbGenerated \cup KbSamples)

KbNext == RetrieveKBAny \/ Render

KbSpec == KbInit /\ [][KbNext]_vars

----------------------------------------------------------------------------
(* Vocabulary of the properties *)

Count(seq, P(_)) == Cardinality({ i \in 1..Len(seq) : P(seq[i]) })

IsKb(f) == f = "get_kb_response"

IsGeneric(f) == f = "get_generic_response"

IsClassifier(f) == f = "classify_query"

KbInvocations == Count(invoked, IsKb)

GenericInvocations == Count(invoked, IsGeneric)

Classified == Count(invoked, IsClassifier) > 0

Answered == pc \in { "Rendering", "Done" }

\* an exception was raised inside classify_query
ClassificationFailed ==
    /\ Classified
    /\ cls_outcome.raised \/ ~HasContent(cls_outcome.body)

IsPrefix(s, t) == Len(s) <= Len(t) /\ SubSeq(t, 1, Len(s)) = s

LastTurn == chat_history[Len(chat_history)]

----------------------------------------------------------------------------
\* C1: in every run exactly one of get_kb_response and get_generic_response
\* is invoked: never both at any point, and one of them once the query has
\* been answered, whatever the classifier returned and whichever calls failed.
C1_ExactlyOnePath ==
    /\ KbInvocations + GenericInvocations <= 1
    /\ pc # "Crashed"
    /\ Answered => KbInvocations + GenericInvocations = 1

C1_Witness ==
    /\ pc = "Done"
    /\ KbInvocations = 1
    /\ GenericInvocations = 0
    /\ ans_outcome.raised

----------------------------------------------------------------------------
\* C2: when an exception is raised inside classify_query, it returns Generic,
\* the query is answered by get_generic_response, invoked exactly once, with
\* get_kb_response never invoked, and no exception escapes the run.
C2_ClassifierFailsOpen ==
    ClassificationFailed =>
        /\ category = GENERIC
        /\ pc # "Crashed"
        /\ KbInvocations = 0
        /\ GenericInvocations <= 1
        /\ Answered => GenericInvocations = 1

C2_Witness ==
    /\ pc = "Done"
    /\ query = Q_WEATHER
    /\ cls_outcome.raised
    /\ GenericInvocations = 1
    /\ response = GENERIC_ANSWER

----------------------------------------------------------------------------
\* C3: with PRODUCT_NAME "WidgetPro", a classifier reply of exactly "Product"
\* and the scenario's knowledge-base reply, the query "How do I reset my
\* device?" is answered on the Product path with text "Hold power for 10s."
\* and the citation ("Reset instructions...", "s3://docs/reset.txt").
C3_EndToEnd ==
    ( /\ pc = "Done"
      /\ PRODUCT_NAME = WIDGETPRO
      /\ query = Q_RESET
      /\ cls_outcome = Returned(Reply(<< TextItem(PRODUCT) >>))
      /\ KbInvocations > 0 =>
            ans_outcome = Returned(KbReply(ANSWER, << << "ok" >> >>)) )
    =>
    /\ category = PRODUCT
    /\ KbInvocations = 1
    /\ response = ANSWER
    /\ display = << Markdown("user", Q_RESET),
                    Markdown("Context", CONTEXT_1),
                    Markdown("Source", URI_1),
                    Markdown("answer", ANSWER) >>

----------------------------------------------------------------------------
\* C4: when the classification call returns a reply with content, the
\* category is Product exactly when the lower-cased product name occurs, at
\* some offset, in the lower-cased concatenation of the reply's text
\* fragments, and Generic otherwise; so "Acme" with "this is about acme
\* products" gives Product and with "I don't know" gives Generic.

RECURSIVE FragmentChars(_, _)
FragmentChars(content, k) ==
    IF k = 0 THEN << >>
    ELSE FragmentChars(content, k - 1)
         \o (IF "text" \in DOMAIN content[k] THEN content[k].text ELSE << >>)

OccursFolded(name, text) ==
    \E off \in 0..Len(text) :
        /\ off + Len(name) <= Len(text)
        /\ \A j \in 1..Len(name) : LowerChar(name[j]) = LowerChar(text[off + j])

C4_SubstringRule ==
    (Classified /\ ~cls_outcome.raised /\ HasContent(cls_outcome.body)) =>
        LET content == cls_outcome.body.output.message.content
            text == FragmentChars(content, Len(content))
        IN /\ category = PRODUCT <=> OccursFolded(PRODUCT_NAME, text)
           /\ category # PRODUCT => category = GENERIC
           /\ (PRODUCT_NAME = ACME /\ text = TXT_ABOUT_ACME) => category = PRODUCT
           /\ (PRODUCT_NAME = ACME /\ text = TXT_DONT_KNOW) => category = GENERIC

C4_Witness ==
    /\ Classified
    /\ ~cls_outcome.raised
    /\ HasContent(cls_outcome.body)
    /\ PRODUCT_NAME = ACME
    /\ category = PRODUCT
    /\ Len(cls_outcome.body.output.message.content) = 3

----------------------------------------------------------------------------
(* Vocabulary of the knowledge-base properties *)

IsCitationMarkdown(m) == m.kind \in { "Context", "Source" }

IsNoContextMarkdown(m) == m.kind = "NoContext"

IsKbMarkdown(m) == IsCitationMarkdown(m) \/ IsNoContextMarkdown(m)

KbDisplay == SelectSeq(display, IsKbMarkdown)

IsKbError(e) == e = "Knowledge base error"

KbReturned == KbInvocations = 1 /\ ~ans_outcome.raised

HasText(ref) == "content" \in DOMAIN ref /\ "text" \in DOMAIN ref.content

HasUri(ref) ==
    /\ "location" \in DOMAIN ref
    /\ "s3Location" \in DOMAIN ref.location
    /\ "uri" \in DOMAIN ref.location.s3Location

HasAnswerText(body) == "output" \in DOMAIN body /\ "text" \in DOMAIN body.output

\* the documented shape of a retrieve_and_generate reply
WellFormed(body) ==
    /\ HasAnswerText(body)
    /\ "citations" \in DOMAIN body
    /\ \A g \in 1..Len(body.citations) :
        /\ "retrievedReferences" \in DOMAIN body.citations[g]
        /\ \A i \in 1..Len(body.citations[g].retrievedReferences) :
            LET ref == body.citations[g].retrievedReferences[i]
            IN HasText(ref) /\ HasUri(ref)

CitationOf(ref) ==
    << Markdown("Context", ref.content.text),
       Markdown("Source", ref.location.s3Location.uri) >>

----------------------------------------------------------------------------
\* C5 as stated: whenever some citation group of a well-formed reply has a
\* reference, the citation surfaced is that of the first reference there is
\* (the first reference of the first group that has one).
C5_AnyGroupWithReference ==
    (KbReturned /\ WellFormed(ans_outcome.body)) =>
        LET cites == ans_outcome.body.citations
            holders == { g \in 1..Len(cites) : Len(cites[g].retrievedReferences) > 0 }
        IN holders # {} =>
            LET g0 == CHOOSE g \in holders : \A h \in holders : g <= h
            IN KbDisplay = CitationOf(cites[g0].retrievedReferences[1])

\* C5: when the reply's citation list is non-empty, its first group has a
\* reference, and that reference has content.text and
\* location.s3Location.uri, exactly that reference's text and uri are
\* surfaced, and nothing of a later reference or group.
C5_FirstGroupFirstReference ==
    ( /\ KbReturned
      /\ HasAnswerText(ans_outcome.body)
      /\ "citations" \in DOMAIN ans_outcome.body
      /\ ans_outcome.body.citations # << >>
      /\ "retrievedReferences" \in DOMAIN ans_outcome.body.citations[1]
      /\ ans_outcome.body.citations[1].retrievedReferences # << >>
      /\ HasText(ans_outcome.body.citations[1].retrievedReferences[1])
      /\ HasUri(ans_outcome.body.citations[1].retrievedReferences[1]) )
    => KbDisplay = CitationOf(ans_outcome.body.citations[1].retrievedReferences[1])

C5_Witness ==
    /\ pc = "Done"
    /\ KbReturned
    /\ WellFormed(ans_outcome.body)
    /\ Len(ans_outcome.body.citations) = 2
    /\ Len(ans_outcome.body.citations[1].retrievedReferences) = 2
    /\ Len(ans_outcome.body.citations[2].retrievedReferences) = 1
    /\ KbDisplay = CitationOf(ans_outcome.body.citations[1].retrievedReferences[1])

----------------------------------------------------------------------------
\* C6: for a well-formed reply a citation is surfaced exactly when the
\* citation list is non-empty and its first group's reference list is
\* non-empty; otherwise nothing is cited and "No specific context found" is
\* surfaced exactly once; either way the reply's output text is returned
\* unchanged.
C6_CitationOrNoContext ==
    (KbReturned /\ WellFormed(ans_outcome.body)) =>
        LET body == ans_outcome.body
            first == /\ body.citations # << >>
                     /\ body.citations[1].retrievedReferences # << >>
        IN /\ Count(display, IsCitationMarkdown) > 0 <=> first
           /\ first => Count(display, IsNoContextMarkdown) = 0
           /\ ~first => KbDisplay = << Markdown("NoContext", NO_CONTEXT) >>
           /\ response = body.output.text
           /\ Count(errors, IsKbError) = 0

C6_Witness ==
    /\ pc = "Done"
    /\ KbReturned
    /\ WellFormed(ans_outcome.body)
    /\ ans_outcome.body.citations = << >>
    /\ response = ANSWER
    /\ Count(display, IsNoContextMarkdown) = 1

----------------------------------------------------------------------------
\* C7: no retry and no fall-back to the other path: each function of the
\* run issues its remote call at most once, the classification call first;
\* and when a query classified Product gets a failed knowledge-base call or
\* an empty text, the response is empty, get_generic_response is not
\* invoked, and no assistant turn follows the system turn.

CallsBy(f) == Cardinality({ i \in 1..Len(calls) : calls[i].by = f })

KbCameBackEmpty ==
    /\ category = PRODUCT
    /\ Answered
    /\ \/ ans_outcome.raised
       \/ ~HasAnswerText(ans_outcome.body)
       \/ ans_outcome.body.output.text = << >>

C7_NoRetryNoFallback ==
    /\ \A f \in { "classify_query", "get_kb_response", "get_generic_response" } :
          CallsBy(f) <= 1
    /\ Len(calls) <= 2
    /\ calls # << >> => calls[1].by = "classify_query"
    /\ KbCameBackEmpty =>
          /\ response = << >>
          /\ GenericInvocations = 0
          /\ CallsBy("get_generic_response") = 0
          /\ pc = "Done" => LastTurn.role = "system"

C7_Witness ==
    /\ pc = "Done"
    /\ category = PRODUCT
    /\ ans_outcome.raised
    /\ response = << >>
    /\ Len(calls) = 2

----------------------------------------------------------------------------
\* C8: a run that has started always reaches Done; no exception escapes
\* classify_query, get_kb_response or get_generic_response; each remote call
\* that raised is reported exactly once to st.error, and a run reports at
\* most two errors.

ErrorOf(f) ==
    CASE f = "classify_query"       -> "Classification error"
      [] f = "get_kb_response"      -> "Knowledge base error"
      [] f = "get_generic_response" -> "Generic response error"

ReportsOf(f) == Cardinality({ j \in 1..Len(errors) : errors[j] = ErrorOf(f) })

C8_Safe ==
    /\ pc # "Crashed"
    /\ \A i \in 1..Len(calls) : calls[i].raised => ReportsOf(calls[i].by) = 1
    /\ Len(errors) \in 0..2

C8_AlwaysCompletes ==
    /\ []C8_Safe
    /\ (pc = "Classifying") ~> (pc = "Done")

C8_Witness ==
    /\ pc = "Done"
    /\ Len(calls) = 2
    /\ calls[1].raised
    /\ calls[2].raised
    /\ Len(errors) = 2

----------------------------------------------------------------------------
\* C9: between runs the chat history is, for the queries completed since
\* the last Clear Chat in order, the user turn, the system turn
\* "Classified as: <label>" and, only for a non-empty response, the
\* assistant turn; a step that is not Clear Chat keeps the earlier turns as
\* they are; Clear Chat leaves the history empty.

RECURSIVE ExpectedHistory(_)
ExpectedHistory(done) ==
    IF done = << >> THEN << >>
    ELSE LET n == Len(done)
             e == done[n]
         IN ExpectedHistory(SubSeq(done, 1, n - 1))
            \o << [role |-> "user", content |-> e.query],
                  [role |-> "system", content |-> CLASSIFIED_AS \o e.label] >>
            \o (IF Len(e.response) > 0
                THEN << [role |-> "assistant", content |-> e.response] >>
                ELSE << >>)

C9_Quiescent ==
    pc \in { "Start", "Done" } =>
        /\ chat_history = ExpectedHistory(log)
        /\ \A i \in 1..Len(log) : log[i].label \in { PRODUCT, GENERIC }

C9_Step ==
    \/ IsPrefix(chat_history, chat_history')
    \/ ClearChat /\ chat_history' = << >>

C9_History == []C9_Quiescent /\ [][C9_Step]_vars

C9_Witness ==
    /\ pc = "Done"
    /\ Len(log) = 2
    /\ log[1].response = << >>
    /\ log[2].response # << >>
    /\ Len(chat_history) = 5

----------------------------------------------------------------------------
\* C10: when retrieve_and_generate returns an output text but the reply has
\* no citations field, or the first reference of its first group lacks
\* content.text or location.s3Location.uri, get_kb_response returns the
\* empty text and reports one error, surfaces neither a citation nor "No
\* specific context found", and no assistant turn is appended.

LacksCitationData(body) ==
    \/ "citations" \notin DOMAIN body
    \/ /\ body.citations # << >>
       /\ "retrievedReferences" \in DOMAIN body.citations[1]
       /\ body.citations[1].retrievedReferences # << >>
       /\ LET ref == body.citations[1].retrievedReferences[1]
          IN ~HasText(ref) \/ ~HasUri(ref)

C10_AnswerDiscarded ==
    ( /\ KbReturned
      /\ HasAnswerText(ans_outcome.body)
      /\ LacksCitationData(ans_outcome.body) )
    =>
    /\ response = << >>
    /\ Count(errors, IsKbError) = 1
    /\ KbDisplay = << >>
    /\ pc = "Done" => LastTurn.role = "system" /\ Len(chat_history) = 2

C10_Witness ==
    /\ pc = "Done"
    /\ KbReturned
    /\ HasAnswerText(ans_outcome.body)
    /\ ans_outcome.body.output.text = ANSWER
    /\ LacksCitationData(ans_outcome.body)
    /\ "citations" \in DOMAIN ans_outcome.body
    /\ ~HasUri(ans_outcome.body.citations[1].retrievedReferences[1])
    /\ response = << >>

====
